---- MODULE Spec2Model ----
(***************************************************************************)
(* Model of src/src/swap-api-test.ts: configuration validation, the swap   *)
(* workflow main() (price, allowance, quote, permit signing, calldata      *)
(* augmentation, broadcast) and the batch runner bulkTest().               *)
(*                                                                         *)
(* The script is one thread of control.  pc is the statement it is at; an  *)
(* await is two steps: the call is issued (it joins `outstanding`) and it  *)
(* settles (resolves or rejects).  Hex strings are sequences of hex digits *)
(* (0..15) after the "0x" prefix, as viem handles them.                    *)
(***************************************************************************)
EXTENDS Integers, Sequences, FiniteSets, TLC

\* ---------------------------------------------------------------- bounds
MaxDataBytes == 2
MaxSigBytes == 2

\* ------------------------------------------------------ program constants
LoopLimit == 50
LengthWordSize == 32

\* ------------------------------------------------------------- hex values
HexDigits == {0, 10}

RECURSIVE DigitSeqs(_)
DigitSeqs(n) ==
    IF n = 0 THEN {<<>>}
    ELSE LET shorter == DigitSeqs(n - 1)
         IN  shorter \cup {Append(s, d) : s \in {t \in shorter : Len(t) = n - 1}, d \in HexDigits}

\* hex strings of whole bytes, at most n bytes long
ByteStrings(n) == {s \in DigitSeqs(2 * n) : Len(s) % 2 = 0}

\* an optional hex string: undefined, or "0x" followed by digits
Undefined == [defined |-> FALSE, digits |-> <<>>]
HexOf(d) == [defined |-> TRUE, digits |-> d]

\* JS truthiness of an optional hex string: undefined is falsy, every
\* "0x..." string is a non-empty string and so truthy
Truthy(h) == h.defined

\* viem size(): Math.ceil((value.length - 2) / 2)
size(h) == (Len(h.digits) + 1) \div 2

\* Number.prototype.toString(16), as a digit sequence
RECURSIVE toString16(_)
toString16(n) ==
    IF n < 16 THEN <<n>> ELSE Append(toString16(n \div 16), n % 16)

\* viem pad(hex, {size}): padStart with zeros to size * 2 digits
RECURSIVE padStart(_, _)
padStart(digits, width) ==
    IF Len(digits) >= width THEN digits ELSE padStart(<<0>> \o digits, width)

\* viem numberToHex(value, {signed: false, size})
numberToHex(value, sz) == HexOf(padStart(toString16(value), 2 * sz))

\* viem concat([a, b, c]) on hex strings: the digits joined after one "0x"
concat(a, b, c) == HexOf(a.digits \o b.digits \o c.digits)

\* the length word counts the signature's hex characters, not its bytes
AugmentedData_charLength(transactionData, sig) ==
    concat(transactionData, numberToHex(Len(sig.digits), LengthWordSize), sig)

\* lines 176-189: the calldata with the length-prefixed signature appended
AugmentedData(transactionData, sig) ==
    concat(transactionData, numberToHex(size(sig), LengthWordSize), sig)

\* ------------------------------------------------------------ test values
\* a 65-byte signature, as signTypedData returns (r, s, v)
Sig65 == [k \in 1..130 |-> IF k % 2 = 1 THEN 10 ELSE 15]
\* a signature whose length needs two bytes
Sig300 == [k \in 1..600 |-> IF k % 2 = 1 THEN 15 ELSE 0]

\* quote.transaction.data 0xAA
DataAA == <<10, 10>>

\* values the workflow is run with
RunSignatures == {Sig65}
RunData == {DataAA}
Spenders == {"permit2"}

\* values the calldata augmentation is checked with
AugSignatures == ByteStrings(MaxSigBytes) \cup {Sig65, Sig300}
AugData == ByteStrings(MaxDataBytes)

\* ------------------------------------------------------------ environment
EnvValues == {"unset", "empty", "set"}
\* !X in JS: undefined and "" are falsy
Missing(v) == v \in {"unset", "empty"}

\* -------------------------------------------------------------- responses
NoPrice == [kind |-> "none", spender |-> ""]
PriceResponses ==
    {[kind |-> k, spender |-> ""] : k \in {"noIssues", "allowanceNull", "allowanceUndefined"}}
    \cup {[kind |-> "allowanceSet", spender |-> s] : s \in Spenders}

NoQuote == [permit2 |-> FALSE, transaction |-> FALSE, data |-> Undefined]
QuoteResponsesOver(dataSet) ==
    {[permit2 |-> p, transaction |-> FALSE, data |-> Undefined] : p \in BOOLEAN}
    \cup {[permit2 |-> p, transaction |-> TRUE, data |-> d] :
            p \in BOOLEAN, d \in {Undefined} \cup {HexOf(x) : x \in dataSet}}
QuoteResponses == QuoteResponsesOver(RunData)

NoRequest == <<>>

\* ------------------------------------------------------ request parameters
\* values of usdc.read.decimals()
DecimalsValues == {6}

\* viem parseUnits("1", decimals)
parseUnits(decimals) == 10 ^ decimals

NoParams == <<>>

\* lines 68-74: new URLSearchParams({chainId, sellToken, buyToken,
\* sellAmount, taker}), as its entries in order
PriceParams(amount) ==
    << <<"chainId", "8453">>,
       <<"sellToken", "0x833589fcd6edb6e08f4c7c32d4f71b54bda02913">>,
       <<"buyToken", "0x50c5725949a6f0c72e6c4a641f24049a917db0cb">>,
       <<"sellAmount", ToString(amount)>>,
       <<"taker", "client.account.address">> >>

\* lines 128-131: every entry of `params` is appended to a new URLSearchParams
RECURSIVE AppendEntries(_, _)
AppendEntries(target, params) ==
    IF params = <<>> THEN target
    ELSE AppendEntries(Append(target, Head(params)), Tail(params))

\* ------------------------------------------------------------------ calls
MainAwaits == {"decimals", "fetchPrice", "priceJson", "simulateApprove",
               "writeApprove", "approveReceipt", "fetchQuote", "quoteJson",
               "signTypedData", "getTransactionCount", "signTransaction",
               "sendRawTransaction", "swapReceipt"}
BulkAwaits == {"usdcBalance", "wethBalance"}
Awaits == MainAwaits \cup BulkAwaits
\* awaits that go to the 0x API or to the RPC node; the two signing calls
\* and the response body reads are local
HttpCalls == {"fetchPrice", "fetchQuote"}
RpcCalls == {"decimals", "simulateApprove", "writeApprove", "approveReceipt",
             "getTransactionCount", "sendRawTransaction", "swapReceipt",
             "usdcBalance", "wethBalance"}
NetworkCalls == HttpCalls \cup RpcCalls
ApprovalCalls == {"simulateApprove", "writeApprove", "approveReceipt"}
NoCalls == [c \in Awaits |-> 0]

VARIABLES
    env,            \* PRIVATE_KEY, ZERO_EX_API_KEY, RPC_URL of process.env
    pc,             \* the statement the script is at
    outstanding,    \* awaited calls that were issued and have not settled
    fault,          \* the error thrown by the module top level, or "none"
    error,          \* the error thrown inside bulkTest()/main(), or "none"
    ending,         \* which top-level handler ran: "none", "completed", "rejected"
    i, success, failed, notSent, total,   \* locals of bulkTest
    res,            \* the value main() returned to bulkTest (-1: none yet)
    price, quote, signature, request,     \* locals of main
    signedTransaction, receiptStatus,
    sellAmount, priceParams, quoteParams,  \* locals of main
    priceRequest,   \* history: the parameters the price request carried
    quoteRequest,   \* history: the parameters the firm-quote request carried
    approved,       \* history: the approve() arguments submitted in this iteration
    received,       \* history: quote.transaction.data as the API returned it
    sent,           \* history: calldata broadcast in this iteration
    calls,          \* history: calls issued, per call, in this iteration
    order,          \* history: the calls of this iteration in issue order
    logs,           \* history: messages logged in this iteration
    mainCalls,      \* history: invocations of main()
    returned,       \* history: invocations of main() that returned
    broadcasts,     \* history: swap transactions broadcast in the run
    unconfirmed,    \* history: swap transactions broadcast, receipt not yet obtained
    netUsed,        \* history: a network call (HTTP or RPC) was issued
    bulkInvoked,    \* history: bulkTest() was invoked
    countersLogged, \* history: lines 275-277 ran
    balancesLogged  \* history: lines 282-283 ran

vars == <<env, pc, outstanding, fault, error, ending, i, success, failed,
          notSent, total, res, price, quote, signature, request,
          signedTransaction, receiptStatus, approved, received, sent,
          sellAmount, priceParams, quoteParams, priceRequest, quoteRequest,
          calls, order, logs, mainCalls, returned, broadcasts, unconfirmed, netUsed, bulkInvoked,
          countersLogged, balancesLogged>>

bulkVars == <<i, success, failed, notSent, total>>
mainVars == <<price, quote, signature, request, signedTransaction, receiptStatus, approved, received, sent>>
histVars == <<mainCalls, returned, broadcasts, unconfirmed, bulkInvoked, countersLogged, balancesLogged>>
topVars == <<env, fault, ending>>
paramVars == <<sellAmount, priceParams, quoteParams, priceRequest, quoteRequest>>
\* what a step that issues or settles no call leaves alone
callVars == <<outstanding, calls, order, netUsed>>

\* ------------------------------------------------------------------- Init
\* lines 24-25: the environment is loaded; nothing else has run
Init ==
    /\ env \in [PRIVATE_KEY : EnvValues, ZERO_EX_API_KEY : EnvValues, RPC_URL : EnvValues]
    /\ pc = "validate"
    /\ outstanding = {}
    /\ fault = "none" /\ error = "none" /\ ending = "none"
    /\ i = 0 /\ success = 0 /\ failed = 0 /\ notSent = 0 /\ total = 0
    /\ res = -1
    /\ price = NoPrice /\ quote = NoQuote /\ signature = Undefined
    /\ request = NoRequest /\ signedTransaction = Undefined
    /\ receiptStatus = "none" /\ approved = <<>>
    /\ received = Undefined /\ sent = Undefined
    /\ sellAmount = 0 /\ priceParams = NoParams /\ quoteParams = NoParams
    /\ priceRequest = NoParams /\ quoteRequest = NoParams
    /\ calls = NoCalls /\ order = <<>> /\ logs = {}
    /\ mainCalls = 0 /\ returned = 0 /\ broadcasts = 0 /\ unconfirmed = 0
    /\ netUsed = FALSE /\ bulkInvoked = FALSE
    /\ countersLogged = FALSE /\ balancesLogged = FALSE

\* -------------------------------------------------------- module top level
\* RPC_URL is not validated
ValidationFault_noRpcUrl(e) ==
    IF Missing(e.PRIVATE_KEY) THEN "missing PRIVATE_KEY."
    ELSE IF Missing(e.ZERO_EX_API_KEY) THEN "missing ZERO_EX_API_KEY."
    ELSE "none"

\* lines 28-30: the first missing value throws; the module stops there
ValidationFault(e) ==
    IF Missing(e.PRIVATE_KEY) THEN "missing PRIVATE_KEY."
    ELSE IF Missing(e.ZERO_EX_API_KEY) THEN "missing ZERO_EX_API_KEY."
    ELSE IF Missing(e.RPC_URL) THEN "missing RPC_URL."
    ELSE "none"

validate ==
    /\ pc = "validate"
    /\ fault' = ValidationFault(env)
    /\ pc' = IF fault' = "none" THEN "setup" ELSE "fault"
    /\ UNCHANGED <<env, error, ending, res, logs>>
    /\ UNCHANGED <<bulkVars, mainVars, histVars, callVars>>
    /\ UNCHANGED paramVars

\* lines 33-58: headers, wallet client and contract handles; no request is made
setup ==
    /\ pc = "setup"
    /\ pc' = "invoke"
    /\ UNCHANGED <<topVars, error, res, logs>>
    /\ UNCHANGED <<bulkVars, mainVars, histVars, callVars>>
    /\ UNCHANGED paramVars

\* ---------------------------------------------------------------- awaits
\* an await expression: the call is made and the function suspends on it
Issue ==
    /\ pc \in Awaits
    /\ outstanding = {}
    /\ outstanding' = {pc}
    /\ calls' = [calls EXCEPT ![pc] = @ + 1]
    /\ order' = Append(order, pc)
    /\ netUsed' = (netUsed \/ pc \in NetworkCalls)
    /\ priceRequest' = IF pc = "fetchPrice" THEN priceParams ELSE priceRequest
    /\ quoteRequest' = IF pc = "fetchQuote" THEN quoteParams ELSE quoteRequest
    /\ UNCHANGED <<sellAmount, priceParams, quoteParams>>
    /\ UNCHANGED <<pc, topVars, error, res, logs>>
    /\ UNCHANGED <<bulkVars, mainVars, histVars>>

Awaiting(c) == pc = c /\ c \in outstanding

\* the call is not awaited: the function goes on while it is outstanding
Settle_notAwaited == outstanding' = outstanding /\ UNCHANGED <<calls, order, netUsed>>

Settle == outstanding' = {} /\ UNCHANGED <<calls, order, netUsed>>

\* an error leaves main() or bulkTest(): neither has a handler around it
Throw(e) == pc' = "threw" /\ error' = e

\* an awaited call whose value is not used further: on to `next`, or throw
Await(c, next) ==
    /\ Awaiting(c)
    /\ Settle
    /\ \E ok \in BOOLEAN :
         IF ok THEN pc' = next /\ error' = error ELSE Throw(c)

\* --------------------------------------------------------------- bulkTest
\* lines 286, 247-251: bulkTest() is called; its counters start at 0
bulkTest_start ==
    /\ pc = "invoke"
    /\ bulkInvoked' = TRUE
    /\ i' = 0 /\ success' = 0 /\ failed' = 0 /\ notSent' = 0 /\ total' = 0
    /\ pc' = "for"
    /\ UNCHANGED <<topVars, error, res, logs, mainVars, callVars>>
    /\ UNCHANGED <<mainCalls, returned, broadcasts, unconfirmed, countersLogged, balancesLogged>>
    /\ UNCHANGED paramVars

\* the loop test is i <= 50
bulkTest_for_offByOne ==
    /\ pc = "for"
    /\ IF i <= LoopLimit
       THEN /\ pc' = "decimals"
            /\ mainCalls' = mainCalls + 1
            /\ price' = NoPrice /\ quote' = NoQuote /\ signature' = Undefined
            /\ request' = NoRequest /\ signedTransaction' = Undefined
            /\ receiptStatus' = "none" /\ approved' = <<>>
            /\ received' = Undefined /\ sent' = Undefined
            /\ sellAmount' = 0 /\ priceParams' = NoParams /\ quoteParams' = NoParams
            /\ priceRequest' = NoParams /\ quoteRequest' = NoParams
            /\ calls' = NoCalls /\ order' = <<>> /\ logs' = {}
       ELSE /\ pc' = "summary"
            /\ UNCHANGED <<mainCalls, mainVars, paramVars, calls, order, logs>>
    /\ UNCHANGED <<topVars, error, res, bulkVars, outstanding, netUsed>>
    /\ UNCHANGED <<returned, broadcasts, unconfirmed, bulkInvoked, countersLogged, balancesLogged>>

\* lines 252-263: the loop test; a passing test calls main()
bulkTest_for ==
    /\ pc = "for"
    /\ IF i < LoopLimit
       THEN /\ pc' = "decimals"
            /\ mainCalls' = mainCalls + 1
            /\ price' = NoPrice /\ quote' = NoQuote /\ signature' = Undefined
            /\ request' = NoRequest /\ signedTransaction' = Undefined
            /\ receiptStatus' = "none" /\ approved' = <<>>
            /\ received' = Undefined /\ sent' = Undefined
            /\ sellAmount' = 0 /\ priceParams' = NoParams /\ quoteParams' = NoParams
            /\ priceRequest' = NoParams /\ quoteRequest' = NoParams
            /\ calls' = NoCalls /\ order' = <<>> /\ logs' = {}
       ELSE /\ pc' = "summary"
            /\ UNCHANGED <<mainCalls, mainVars, paramVars, calls, order, logs>>
    /\ UNCHANGED <<topVars, error, res, bulkVars, outstanding, netUsed>>
    /\ UNCHANGED <<returned, broadcasts, unconfirmed, bulkInvoked, countersLogged, balancesLogged>>

\* outcome 0 is tallied and the loop goes on
bulkTest_tally_noBreak ==
    /\ pc = "returned"
    /\ IF res = 1
       THEN /\ success' = success + 1 /\ UNCHANGED <<failed, notSent>>
       ELSE IF res = 0
       THEN /\ failed' = failed + 1 /\ UNCHANGED <<success, notSent>>
       ELSE /\ notSent' = notSent + 1 /\ UNCHANGED <<success, failed>>
    /\ total' = total + 1 /\ i' = i + 1
    /\ pc' = "for"
    /\ UNCHANGED <<topVars, error, res, logs, mainVars, histVars, callVars>>
    /\ UNCHANGED paramVars

\* the first `else` is missing: outcome 1 is also tallied as not sent
bulkTest_tally_noElse ==
    /\ pc = "returned"
    /\ IF res = 1
       THEN /\ success' = success + 1 /\ notSent' = notSent + 1
            /\ total' = total + 1 /\ i' = i + 1
            /\ pc' = "for"
            /\ UNCHANGED failed
       ELSE IF res = 0
       THEN /\ failed' = failed + 1
            /\ pc' = "summary"
            /\ UNCHANGED <<success, notSent, total, i>>
       ELSE /\ notSent' = notSent + 1 /\ total' = total + 1 /\ i' = i + 1
            /\ pc' = "for"
            /\ UNCHANGED <<success, failed>>
    /\ UNCHANGED <<topVars, error, res, logs, mainVars, histVars, callVars>>
    /\ UNCHANGED paramVars

\* the first test is `if (res)`: outcome 2 is tallied as a success
bulkTest_tally_truthy ==
    /\ pc = "returned"
    /\ IF res # 0
       THEN /\ success' = success + 1 /\ total' = total + 1 /\ i' = i + 1
            /\ pc' = "for"
            /\ UNCHANGED <<failed, notSent>>
       ELSE /\ failed' = failed + 1
            /\ pc' = "summary"
            /\ UNCHANGED <<success, notSent, total, i>>
    /\ UNCHANGED <<topVars, error, res, logs, mainVars, histVars, callVars>>
    /\ UNCHANGED paramVars

\* lines 264-274: the returned outcome is tallied; 0 breaks the loop
bulkTest_tally ==
    /\ pc = "returned"
    /\ IF res = 1
       THEN /\ success' = success + 1 /\ total' = total + 1 /\ i' = i + 1
            /\ pc' = "for"
            /\ UNCHANGED <<failed, notSent>>
       ELSE IF res = 0
       THEN /\ failed' = failed + 1
            /\ pc' = "summary"
            /\ UNCHANGED <<success, notSent, total, i>>
       ELSE /\ notSent' = notSent + 1 /\ total' = total + 1 /\ i' = i + 1
            /\ pc' = "for"
            /\ UNCHANGED <<success, failed>>
    /\ UNCHANGED <<topVars, error, res, logs, mainVars, histVars, callVars>>
    /\ UNCHANGED paramVars

\* the balances are queried before the counters are logged
bulkTest_summary_balancesFirst ==
    /\ pc = "summary"
    /\ pc' = "usdcBalance"
    /\ UNCHANGED <<topVars, error, res, logs, bulkVars, mainVars, callVars, histVars>>
    /\ UNCHANGED paramVars

\* lines 275-277: the three counters are logged
bulkTest_summary ==
    /\ pc = "summary"
    /\ countersLogged' = TRUE
    /\ pc' = "usdcBalance"
    /\ UNCHANGED <<topVars, error, res, logs, bulkVars, mainVars, callVars>>
    /\ UNCHANGED <<mainCalls, returned, broadcasts, unconfirmed, bulkInvoked, balancesLogged>>
    /\ UNCHANGED paramVars

\* line 278
bulkTest_usdcBalance ==
    /\ Await("usdcBalance", "wethBalance")
    /\ UNCHANGED <<topVars, res, logs, bulkVars, mainVars, histVars>>
    /\ UNCHANGED paramVars

\* lines 279-281
bulkTest_wethBalance ==
    /\ Await("wethBalance", "balanceLog")
    /\ UNCHANGED <<topVars, res, logs, bulkVars, mainVars, histVars>>
    /\ UNCHANGED paramVars

\* lines 282-283: the balances are logged and bulkTest() resolves
bulkTest_balanceLog ==
    /\ pc = "balanceLog"
    /\ balancesLogged' = TRUE
    /\ pc' = "resolved"
    /\ UNCHANGED <<topVars, error, res, logs, bulkVars, mainVars, callVars>>
    /\ UNCHANGED <<mainCalls, returned, broadcasts, unconfirmed, bulkInvoked, countersLogged>>
    /\ UNCHANGED paramVars

\* lines 287-289: the completion handler
bulkTest_then ==
    /\ pc = "resolved"
    /\ ending' = "completed"
    /\ pc' = "done"
    /\ UNCHANGED <<env, fault, error, res, logs>>
    /\ UNCHANGED <<bulkVars, mainVars, histVars, callVars>>
    /\ UNCHANGED paramVars

\* bulkTest catches the throw, tallies the iteration as not sent and loops on
bulkTest_catch_tallied ==
    /\ pc = "threw"
    /\ notSent' = notSent + 1 /\ total' = total + 1 /\ i' = i + 1
    /\ pc' = "for"
    /\ UNCHANGED <<topVars, error, res, logs, success, failed, mainVars, histVars, callVars>>
    /\ UNCHANGED paramVars

\* there is no rejection handler: the rejection is left unhandled
bulkTest_catch_unhandled ==
    /\ pc = "threw"
    /\ pc' = "done"
    /\ UNCHANGED <<topVars, error, res, logs>>
    /\ UNCHANGED <<bulkVars, mainVars, histVars, callVars>>
    /\ UNCHANGED paramVars

\* lines 290-292: a throw in main() or bulkTest() rejects bulkTest()'s promise,
\* and the rejection handler logs it
bulkTest_catch ==
    /\ pc = "threw"
    /\ ending' = "rejected"
    /\ pc' = "done"
    /\ UNCHANGED <<env, fault, error, res, logs>>
    /\ UNCHANGED <<bulkVars, mainVars, histVars, callVars>>
    /\ UNCHANGED paramVars

\* ------------------------------------------------------------------- main
\* lines 62-74: await usdc.read.decimals(), the sell amount of one unit and
\* the price parameters
main_decimals ==
    /\ Awaiting("decimals")
    /\ Settle
    /\ \/ \E d \in DecimalsValues :
            /\ sellAmount' = parseUnits(d)
            /\ priceParams' = PriceParams(sellAmount')
            /\ pc' = "fetchPrice"
            /\ error' = error
       \/ /\ Throw("decimals")
          /\ UNCHANGED <<sellAmount, priceParams>>
    /\ UNCHANGED <<quoteParams, priceRequest, quoteRequest>>
    /\ UNCHANGED <<topVars, res, logs, bulkVars, mainVars, histVars>>

\* lines 76-81: the price request
main_fetchPrice ==
    /\ Await("fetchPrice", "priceJson")
    /\ UNCHANGED <<topVars, res, logs, bulkVars, mainVars, histVars>>
    /\ UNCHANGED paramVars

\* line 83: the price response body
main_priceJson ==
    /\ Awaiting("priceJson")
    /\ Settle
    /\ \/ \E p \in PriceResponses :
            /\ price' = p
            /\ pc' = "allowance"
            /\ error' = error
       \/ /\ Throw("priceJson")
          /\ price' = price
    /\ UNCHANGED <<quote, signature, request, signedTransaction, receiptStatus, approved, received, sent>>
    /\ UNCHANGED <<topVars, res, logs, bulkVars, histVars>>
    /\ UNCHANGED paramVars

\* the approval branch is entered whatever issues.allowance is
main_allowance_always ==
    /\ pc = "allowance"
    /\ IF price.kind = "noIssues"
       THEN Throw("TypeError: price.issues")
       ELSE pc' = "simulateApprove" /\ error' = error
    /\ UNCHANGED <<topVars, res, logs, bulkVars, mainVars, histVars, callVars>>
    /\ UNCHANGED paramVars

\* the approval branch is never entered
main_allowance_never ==
    /\ pc = "allowance"
    /\ IF price.kind = "noIssues"
       THEN Throw("TypeError: price.issues")
       ELSE pc' = "quoteParams" /\ error' = error
    /\ UNCHANGED <<topVars, res, logs, bulkVars, mainVars, histVars, callVars>>
    /\ UNCHANGED paramVars

\* lines 101-119: price.issues.allowance !== null opens the approval branch.
\* A response without `issues` throws on the property read; an `issues`
\* without `allowance` passes the test and throws inside the try, reading
\* the spender, which the catch logs.
main_allowance ==
    /\ pc = "allowance"
    /\ IF price.kind = "noIssues"
       THEN Throw("TypeError: price.issues") /\ logs' = logs
       ELSE IF price.kind = "allowanceNull"
       THEN /\ pc' = "quoteParams"
            /\ logs' = logs \cup {"USDC already approved for Permit2"}
            /\ error' = error
       ELSE IF price.kind = "allowanceUndefined"
       THEN /\ pc' = "quoteParams"
            /\ logs' = logs \cup {"Error approving Permit2:"}
            /\ error' = error
       ELSE /\ pc' = "simulateApprove"
            /\ logs' = logs
            /\ error' = error
    /\ UNCHANGED <<topVars, res, bulkVars, mainVars, histVars, callVars>>
    /\ UNCHANGED paramVars

\* a failed simulation is not caught: it leaves main()
main_simulateApprove_uncaught ==
    /\ Awaiting("simulateApprove")
    /\ Settle
    /\ \E ok \in BOOLEAN :
         IF ok
         THEN /\ request' = <<price.spender, "maxUint256">>
              /\ logs' = logs \cup {"Approving Permit2 to spend USDC..."}
              /\ pc' = "writeApprove"
              /\ error' = error
         ELSE /\ request' = request
              /\ logs' = logs \cup {"Error approving Permit2:"}
              /\ Throw("simulateApprove")
    /\ UNCHANGED <<price, quote, signature, signedTransaction, receiptStatus, approved, received, sent>>
    /\ UNCHANGED <<topVars, res, bulkVars, histVars>>
    /\ UNCHANGED paramVars

\* lines 103-107: usdc.simulate.approve([spender, maxUint256])
main_simulateApprove ==
    /\ Awaiting("simulateApprove")
    /\ Settle
    /\ \E ok \in BOOLEAN :
         IF ok
         THEN /\ request' = <<price.spender, "maxUint256">>
              /\ logs' = logs \cup {"Approving Permit2 to spend USDC..."}
              /\ pc' = "writeApprove"
         ELSE /\ request' = request
              /\ logs' = logs \cup {"Error approving Permit2:"}
              /\ pc' = "quoteParams"
    /\ UNCHANGED <<price, quote, signature, signedTransaction, receiptStatus, approved, received, sent>>
    /\ UNCHANGED <<topVars, error, res, bulkVars, histVars>>
    /\ UNCHANGED paramVars

\* line 109: usdc.write.approve(request.args)
main_writeApprove ==
    /\ Awaiting("writeApprove")
    /\ Settle
    /\ \E ok \in BOOLEAN :
         IF ok
         THEN /\ approved' = Append(approved, request)
              /\ logs' = logs
              /\ pc' = "approveReceipt"
         ELSE /\ approved' = approved
              /\ logs' = logs \cup {"Error approving Permit2:"}
              /\ pc' = "quoteParams"
    /\ UNCHANGED <<price, quote, signature, request, signedTransaction, receiptStatus, received, sent>>
    /\ UNCHANGED <<topVars, error, res, bulkVars, histVars>>
    /\ UNCHANGED paramVars

\* lines 110-116: the approval's receipt is waited for and logged
main_approveReceipt ==
    /\ Awaiting("approveReceipt")
    /\ Settle
    /\ \E ok \in BOOLEAN :
         logs' = logs \cup {IF ok THEN "Approved Permit2 to spend USDC."
                                  ELSE "Error approving Permit2:"}
    /\ pc' = "quoteParams"
    /\ UNCHANGED <<topVars, error, res, bulkVars, mainVars, histVars>>
    /\ UNCHANGED paramVars

\* the firm-quote request also carries the affiliate fee parameters
main_quoteParams_withFee ==
    /\ pc = "quoteParams"
    /\ quoteParams' = AppendEntries(<<>>, priceParams) \o << <<"swapFeeBps", "100">> >>
    /\ pc' = "fetchQuote"
    /\ UNCHANGED <<sellAmount, priceParams, priceRequest, quoteRequest>>
    /\ UNCHANGED <<topVars, error, res, logs, bulkVars, mainVars, histVars, callVars>>

\* lines 128-137: quoteParams is a new URLSearchParams holding the entries of
\* priceParams
main_quoteParams ==
    /\ pc = "quoteParams"
    /\ quoteParams' = AppendEntries(<<>>, priceParams)
    /\ pc' = "fetchQuote"
    /\ UNCHANGED <<sellAmount, priceParams, priceRequest, quoteRequest>>
    /\ UNCHANGED <<topVars, error, res, logs, bulkVars, mainVars, histVars, callVars>>

\* lines 147-152: the firm-quote request
main_fetchQuote ==
    /\ Await("fetchQuote", "quoteJson")
    /\ UNCHANGED <<topVars, res, logs, bulkVars, mainVars, histVars>>
    /\ UNCHANGED paramVars

\* line 154: the quote response body
main_quoteJson ==
    /\ Awaiting("quoteJson")
    /\ Settle
    /\ \/ \E q \in QuoteResponses :
            /\ quote' = q
            /\ received' = q.data
            /\ pc' = "permit"
            /\ error' = error
       \/ /\ Throw("quoteJson")
          /\ UNCHANGED <<quote, received>>
    /\ UNCHANGED <<price, signature, request, signedTransaction, receiptStatus, approved, sent>>
    /\ UNCHANGED <<topVars, res, logs, bulkVars, histVars>>
    /\ UNCHANGED paramVars

\* lines 165-166: signature starts undefined; quote.permit2?.eip712 opens
\* the signing branch
main_permit ==
    /\ pc = "permit"
    /\ signature' = Undefined
    /\ pc' = IF quote.permit2 THEN "signTypedData" ELSE "send"
    /\ UNCHANGED <<price, quote, request, signedTransaction, receiptStatus, approved, received, sent>>
    /\ UNCHANGED <<topVars, error, res, logs, bulkVars, histVars, callVars>>
    /\ UNCHANGED paramVars

\* lines 167-172: client.signTypedData(quote.permit2.eip712); a rejection is
\* caught and logged
main_signTypedData ==
    /\ Awaiting("signTypedData")
    /\ Settle
    /\ \/ \E s \in RunSignatures :
            /\ signature' = HexOf(s)
            /\ logs' = logs \cup {"Signed permit2 message from quote response"}
       \/ /\ signature' = signature
          /\ logs' = logs \cup {"Error signing permit2 coupon:"}
    /\ pc' = "append"
    /\ UNCHANGED <<price, quote, request, signedTransaction, receiptStatus, approved, received, sent>>
    /\ UNCHANGED <<topVars, error, res, bulkVars, histVars>>
    /\ UNCHANGED paramVars

\* the augmentation test looks at the transaction data only
HasSignatureAndData_dataOnly(sig, q) == q.transaction /\ Truthy(q.data)

\* line 175: signature && quote?.transaction?.data
HasSignatureAndData(sig, q) == Truthy(sig) /\ q.transaction /\ Truthy(q.data)

\* the joined calldata is not stored back into quote.transaction.data
main_append_notStored ==
    /\ pc = "append"
    /\ IF Truthy(signature) /\ quote.transaction /\ Truthy(quote.data)
       THEN pc' = "send" /\ error' = error
       ELSE Throw("Failed to obtain signature or transaction data")
    /\ UNCHANGED <<topVars, res, logs, bulkVars, mainVars, histVars, callVars>>
    /\ UNCHANGED paramVars

\* lines 175-192: the signature is appended to quote.transaction.data, or
\* the workflow throws
main_append ==
    /\ pc = "append"
    /\ IF HasSignatureAndData(signature, quote)
       THEN /\ quote' = [quote EXCEPT !.data = AugmentedData(quote.data, signature)]
            /\ pc' = "send"
            /\ error' = error
       ELSE /\ Throw("Failed to obtain signature or transaction data")
            /\ quote' = quote
    /\ UNCHANGED <<price, signature, request, signedTransaction, receiptStatus, approved, received, sent>>
    /\ UNCHANGED <<topVars, res, logs, bulkVars, histVars, callVars>>
    /\ UNCHANGED paramVars

\* the broadcast test looks at the transaction data only
CanSend_dataOnly(sig, q) == Truthy(q.data)

\* line 201: signature && quote.transaction.data
CanSend(sig, q) == Truthy(sig) /\ Truthy(q.data)

\* lines 201, 237-243: the broadcast branch is entered, or main() returns 2
main_send ==
    /\ pc = "send"
    /\ IF Truthy(signature) /\ ~quote.transaction
       THEN /\ Throw("TypeError: quote.transaction")
            /\ UNCHANGED <<res, logs, returned>>
       ELSE IF CanSend(signature, quote)
       THEN /\ pc' = "getTransactionCount"
            /\ UNCHANGED <<error, res, logs, returned>>
       ELSE /\ logs' = logs \cup {"Failed to obtain a signature, transaction not sent."}
            /\ res' = 2
            /\ returned' = returned + 1
            /\ pc' = "returned"
            /\ error' = error
    /\ UNCHANGED <<topVars, bulkVars, mainVars, callVars>>
    /\ UNCHANGED <<mainCalls, broadcasts, unconfirmed, bulkInvoked, countersLogged, balancesLogged>>
    /\ UNCHANGED paramVars

\* lines 202-204: the nonce lookup
main_getTransactionCount ==
    /\ Await("getTransactionCount", "signTransaction")
    /\ UNCHANGED <<topVars, res, logs, bulkVars, mainVars, histVars>>
    /\ UNCHANGED paramVars

\* lines 206-221: the transaction is signed with data: quote.transaction.data
main_signTransaction ==
    /\ Awaiting("signTransaction")
    /\ Settle
    /\ \E ok \in BOOLEAN :
         IF ok
         THEN /\ signedTransaction' = quote.data
              /\ pc' = "sendRawTransaction"
              /\ error' = error
         ELSE /\ Throw("signTransaction")
              /\ signedTransaction' = signedTransaction
    /\ UNCHANGED <<price, quote, signature, request, receiptStatus, approved, received, sent>>
    /\ UNCHANGED <<topVars, res, logs, bulkVars, histVars>>
    /\ UNCHANGED paramVars

\* lines 222-226: the signed transaction is broadcast
main_sendRawTransaction ==
    /\ Awaiting("sendRawTransaction")
    /\ Settle
    /\ \E ok \in BOOLEAN :
         IF ok
         THEN /\ sent' = signedTransaction
              /\ broadcasts' = broadcasts + 1
              /\ unconfirmed' = unconfirmed + 1
              /\ pc' = "swapReceipt"
              /\ error' = error
         ELSE /\ Throw("sendRawTransaction")
              /\ UNCHANGED <<sent, broadcasts, unconfirmed>>
    /\ UNCHANGED <<price, quote, signature, request, signedTransaction, receiptStatus, approved, received>>
    /\ UNCHANGED <<topVars, res, logs, bulkVars>>
    /\ UNCHANGED <<mainCalls, returned, bulkInvoked, countersLogged, balancesLogged>>
    /\ UNCHANGED paramVars

\* the two outcomes are swapped
Outcome_swapped(status) == IF status = "success" THEN 0 ELSE 1

\* line 236: receipt.status === "success" ? 1 : 0
Outcome(status) == IF status = "success" THEN 1 ELSE 0

\* lines 228-236: the swap's receipt is waited for; its status is the outcome
main_swapReceipt ==
    /\ Awaiting("swapReceipt")
    /\ Settle
    /\ \/ \E status \in {"success", "reverted"} :
            /\ receiptStatus' = status
            /\ unconfirmed' = unconfirmed - 1
            /\ logs' = logs \cup {"Transaction status:"}
            /\ res' = Outcome(status)
            /\ returned' = returned + 1
            /\ pc' = "returned"
            /\ error' = error
       \/ /\ Throw("swapReceipt")
          /\ UNCHANGED <<receiptStatus, unconfirmed, logs, res, returned>>
    /\ UNCHANGED <<price, quote, signature, request, signedTransaction, approved, received, sent>>
    /\ UNCHANGED <<topVars, bulkVars>>
    /\ UNCHANGED <<mainCalls, broadcasts, bulkInvoked, countersLogged, balancesLogged>>
    /\ UNCHANGED paramVars

\* ------------------------------------------------------- the whole script
Next ==
    \/ validate
    \/ setup
    \/ Issue
    \/ bulkTest_start
    \/ bulkTest_for
    \/ bulkTest_tally
    \/ bulkTest_summary
    \/ bulkTest_usdcBalance
    \/ bulkTest_wethBalance
    \/ bulkTest_balanceLog
    \/ bulkTest_then
    \/ bulkTest_catch
    \/ main_decimals
    \/ main_fetchPrice
    \/ main_priceJson
    \/ main_allowance
    \/ main_simulateApprove
    \/ main_writeApprove
    \/ main_approveReceipt
    \/ main_quoteParams
    \/ main_fetchQuote
    \/ main_quoteJson
    \/ main_permit
    \/ main_signTypedData
    \/ main_append
    \/ main_send
    \/ main_getTransactionCount
    \/ main_signTransaction
    \/ main_sendRawTransaction
    \/ main_swapReceipt

Spec == Init /\ [][Next]_vars

\* The script under the scheduling of the JavaScript runtime: a statement
\* that is ready to run runs, and every awaited call eventually resolves or
\* rejects.  The script is sequential, so every enabled step is the step of
\* its one thread of control.
SpecFair == Init /\ [][Next]_vars /\ WF_vars(Next)

\* ------------------------------------------- the calldata augmentation alone
\* main() at line 175 of its first iteration, the allowance already granted,
\* with the quote's transaction data and the permit signature drawn from
\* AugData and AugSignatures
InitAug ==
    /\ env = [PRIVATE_KEY |-> "set", ZERO_EX_API_KEY |-> "set", RPC_URL |-> "set"]
    /\ pc = "append"
    /\ outstanding = {}
    /\ fault = "none" /\ error = "none" /\ ending = "none"
    /\ i = 0 /\ success = 0 /\ failed = 0 /\ notSent = 0 /\ total = 0
    /\ res = -1
    /\ price = [kind |-> "allowanceNull", spender |-> ""]
    /\ \E d \in AugData :
         /\ quote = [permit2 |-> TRUE, transaction |-> TRUE, data |-> HexOf(d)]
         /\ received = HexOf(d)
    /\ \E s \in AugSignatures : signature = HexOf(s)
    /\ request = NoRequest /\ signedTransaction = Undefined
    /\ receiptStatus = "none" /\ approved = <<>>
    /\ sent = Undefined
    /\ \E d \in DecimalsValues : sellAmount = parseUnits(d)
    /\ priceParams = PriceParams(sellAmount)
    /\ quoteParams = AppendEntries(<<>>, priceParams)
    /\ priceRequest = priceParams /\ quoteRequest = quoteParams
    /\ order = <<"decimals", "fetchPrice", "priceJson", "fetchQuote", "quoteJson", "signTypedData">>
    /\ calls = [c \in Awaits |-> IF \E k \in 1..Len(order) : order[k] = c THEN 1 ELSE 0]
    /\ logs = {"USDC already approved for Permit2", "Signed permit2 message from quote response"}
    /\ mainCalls = 1 /\ returned = 0 /\ broadcasts = 0 /\ unconfirmed = 0
    /\ netUsed = TRUE /\ bulkInvoked = TRUE
    /\ countersLogged = FALSE /\ balancesLogged = FALSE

NextAug == main_append

SpecAug == InitAug /\ [][NextAug]_vars

\* ---------------------------------------------------------------- claims
\* errors that main() throws (a rejected await, or a throw of its own)
MainErrors == MainAwaits \cup {"TypeError: price.issues", "TypeError: quote.transaction",
                               "Failed to obtain signature or transaction data"}
MainThrew == error \in MainErrors

\* the quote response of the current iteration has arrived
QuoteArrived ==
    calls["quoteJson"] = 1 /\ "quoteJson" \notin outstanding /\ error # "quoteJson"

NoSwapCalls ==
    /\ calls["getTransactionCount"] = 0
    /\ calls["signTransaction"] = 0
    /\ calls["sendRawTransaction"] = 0
    /\ signedTransaction = Undefined
    /\ sent = Undefined

\* C1: the loop of bulkTest ends at the first iteration that returns 0: once
\* an iteration has returned 0, it is the last invocation of main() (the k-th
\* return is the k-th call) and main() is not invoked again, whatever is
\* left of the 50 iterations.
C1_StopsAtFirstFailure ==
    [][res = 0 => /\ mainCalls = returned
                  /\ mainCalls' = mainCalls
                  /\ returned' = returned]_vars

\* C1 witness: the third of 50 iterations returned 0 and the run ended after
\* three invocations
C1_Witness ==
    pc = "done" /\ res = 0 /\ failed = 1 /\ mainCalls = 3 /\ total = 2

\* C2: in an iteration whose quote response lacks permit2.eip712 the signature
\* stays unset, nothing is signed, no nonce is looked up, nothing is broadcast,
\* and the iteration ends by returning 2.
C2_NoPermitReturnsTwo ==
    (QuoteArrived /\ ~quote.permit2) =>
        /\ signature = Undefined
        /\ calls["signTypedData"] = 0
        /\ NoSwapCalls
        /\ ~MainThrew
        /\ \/ pc \in {"permit", "send"}
           \/ res = 2 /\ returned = mainCalls

\* C2 witness: an iteration without a permit payload, whose quote carried
\* transaction data, has returned 2
C2_Witness ==
    /\ QuoteArrived /\ ~quote.permit2 /\ Truthy(quote.data)
    /\ pc = "returned" /\ res = 2

\* bytes of a hex string of whole bytes
ToBytes(digits) == [k \in 1..(Len(digits) \div 2) |-> 16 * digits[2 * k - 1] + digits[2 * k]]

\* the unsigned big-endian encoding of n in len bytes
RECURSIVE BigEndian(_, _)
BigEndian(n, len) ==
    IF len = 0 THEN <<>> ELSE Append(BigEndian(n \div 256, len - 1), n % 256)

\* the number a big-endian word encodes; -1 when it does not fit 16 bits
RECURSIVE WordValue(_)
WordValue(bytes) ==
    IF Len(bytes) = 0 THEN 0
    ELSE IF Len(bytes) > 2 /\ bytes[1] # 0 THEN -1
    ELSE IF Len(bytes) > 2 THEN WordValue(Tail(bytes))
    ELSE IF Len(bytes) = 2 THEN 256 * bytes[1] + bytes[2]
    ELSE bytes[1]

\* C3: the augmented calldata is D, then the 32-byte big-endian length N of
\* the signature, then the N bytes of S; and cutting the last N + 32 bytes
\* off the result gives back N as the declared length, S as the signature,
\* and leaves D.
C3_AugmentationByteExact ==
    pc = "send" =>
        LET D == ToBytes(received.digits)
            S == ToBytes(signature.digits)
            N == Len(S)
            R == ToBytes(quote.data.digits)
            cut == Len(R) - (N + 32)
            tail == SubSeq(R, cut + 1, Len(R))
        IN  /\ quote.data.defined
            /\ Len(quote.data.digits) % 2 = 0
            /\ R = D \o BigEndian(N, 32) \o S
            /\ cut >= 0
            /\ WordValue(SubSeq(tail, 1, 32)) = N
            /\ SubSeq(tail, 33, Len(tail)) = S
            /\ SubSeq(R, 1, cut) = D

\* C3 witness: data 0xAA and a 65-byte signature were joined
C3_Witness ==
    /\ pc = "send"
    /\ received = HexOf(DataAA)
    /\ signature = HexOf(Sig65)
    /\ Len(quote.data.digits) = 2 * (1 + 32 + 65)

\* issues.allowance !== null
AllowanceNonNull(p) == p.kind \in {"allowanceSet", "allowanceUndefined"}

\* C4: in every iteration each approval call (simulation, submission, receipt
\* wait) is made at most once, and only when issues.allowance is non-null;
\* with issues.allowance null none of them is made.
C4_ApprovalOnlyOnAllowanceIssue ==
    /\ \A c \in ApprovalCalls :
         /\ calls[c] <= 1
         /\ calls[c] >= 1 => AllowanceNonNull(price)
    /\ Len(approved) <= 1
    /\ price.kind = "allowanceNull" =>
         /\ \A c \in ApprovalCalls : calls[c] = 0
         /\ approved = <<>>

\* C4 witness: an iteration that approved once has returned
C4_Witness ==
    /\ pc = "returned"
    /\ \A c \in ApprovalCalls : calls[c] = 1
    /\ Len(approved) = 1

\* position of call c in the iteration's issue order, 0 if it was not issued
Position(c) ==
    IF \E k \in 1..Len(order) : order[k] = c
    THEN CHOOSE k \in 1..Len(order) : order[k] = c
    ELSE 0

Issued(c) == Position(c) > 0
ApprovalError == "Error approving Permit2:" \in logs
ApprovalMined == "Approved Permit2 to spend USDC." \in logs

\* C5 as claimed: whenever issues.allowance is non-null, by the time the
\* firm-quote request is sent the approval was simulated, submitted for the
\* maximum allowance to the reported spender, and its receipt obtained.
C5_Original ==
    (AllowanceNonNull(price) /\ Issued("fetchQuote")) =>
        /\ calls["simulateApprove"] = 1
        /\ approved = << <<price.spender, "maxUint256">> >>
        /\ ApprovalMined

\* C5 amended: when issues.allowance names a spender, the approval simulation
\* for the maximum allowance to that spender is attempted once before the
\* firm-quote request; the approval is submitted, with those arguments, only
\* after a successful simulation, and its receipt is waited for only after a
\* successful submission; unless one of the three failed (which is caught and
\* logged), the receipt was obtained before the firm-quote request; and every
\* approval call precedes the firm-quote request and the swap broadcast.
C5_ApprovalBeforeQuote ==
    /\ (price.kind = "allowanceSet" /\ Issued("fetchQuote")) =>
         /\ calls["simulateApprove"] = 1
         /\ ApprovalError \/ (ApprovalMined /\ approved = << <<price.spender, "maxUint256">> >>)
    /\ Issued("writeApprove") =>
         /\ Issued("simulateApprove") /\ Position("simulateApprove") < Position("writeApprove")
         /\ request = <<price.spender, "maxUint256">>
    /\ Issued("approveReceipt") =>
         /\ Position("writeApprove") < Position("approveReceipt")
         /\ approved = <<request>>
    /\ approved # <<>> => approved = << <<price.spender, "maxUint256">> >>
    /\ \A a \in ApprovalCalls : \A b \in {"fetchQuote", "sendRawTransaction"} :
         (Issued(a) /\ Issued(b)) => Position(a) < Position(b)
    /\ sent.defined => Issued("fetchQuote")

\* C5 witness: the approval was mined, the quote requested and a swap broadcast
C5_Witness ==
    /\ price.kind = "allowanceSet" /\ ApprovalMined /\ ~ApprovalError
    /\ Issued("fetchQuote") /\ sent.defined

\* the calldata the claims expect for data d and signature s, from bytes
ExpectedCalldata(d, s) ==
    ToBytes(d.digits) \o BigEndian(Len(ToBytes(s.digits)), 32) \o ToBytes(s.digits)

\* C6: a nonce lookup, a transaction signing or a broadcast happens only in an
\* iteration that obtained a permit signature and whose quote carried
\* transaction data; what is signed and broadcast is the augmented calldata,
\* never the quote's own data; with a permit payload but no signature or no
\* transaction data, none of the three happens.
C6_BroadcastsAugmentedOnly ==
    /\ (\/ Issued("getTransactionCount") \/ Issued("signTransaction")
        \/ Issued("sendRawTransaction") \/ sent.defined) =>
         /\ QuoteArrived /\ quote.permit2
         /\ Truthy(signature) /\ Truthy(received)
    /\ signedTransaction.defined =>
         ToBytes(signedTransaction.digits) = ExpectedCalldata(received, signature)
    /\ sent.defined =>
         /\ sent = signedTransaction
         /\ sent # received
    /\ (QuoteArrived /\ quote.permit2 /\ (~Truthy(signature) \/ ~Truthy(received))) =>
         NoSwapCalls

\* C6 witness: a swap was broadcast and its receipt is awaited
C6_Witness ==
    /\ pc = "swapReceipt" /\ sent.defined /\ Truthy(received) /\ Truthy(signature)

\* C7: an iteration that returns yields 1, 0 or 2: 1 exactly when a swap was
\* broadcast and its receipt says success, 0 exactly when a swap was broadcast
\* and its receipt says anything else, 2 exactly when no signature was
\* obtained and nothing was broadcast.
C7_OutcomeMapping ==
    pc = "returned" =>
        /\ res \in {0, 1, 2}
        /\ res = 1 <=> (sent.defined /\ receiptStatus = "success")
        /\ res = 0 <=> (sent.defined /\ receiptStatus \notin {"none", "success"})
        /\ res = 2 <=> (~Truthy(signature) /\ ~sent.defined)

\* C7 witness: an iteration whose swap reverted has returned 0
C7_Witness ==
    pc = "returned" /\ res = 0 /\ sent.defined /\ receiptStatus = "reverted"

SignFailed == "Error signing permit2 coupon:" \in logs

\* C8 as claimed: after a permit-signing failure the workflow goes on and the
\* iteration is not ended by a thrown error.
C8_Original ==
    SignFailed => /\ signature = Undefined
                  /\ ~MainThrew

\* C8 amended: a permit-signing failure is caught and logged and leaves the
\* signature unset; the workflow goes on only as far as the test at line 175,
\* which throws "Failed to obtain signature or transaction data": the
\* iteration returns no outcome and looks up no nonce, signs and broadcasts
\* nothing.
C8_SignFailureThenThrow ==
    SignFailed =>
        /\ signature = Undefined
        /\ NoSwapCalls
        /\ returned = mainCalls - 1
        /\ \/ pc = "append" /\ error = "none"
           \/ /\ pc \in {"threw", "done"}
              /\ error = "Failed to obtain signature or transaction data"

\* C8 witness: the signing failed and the throw at line 191 is in flight
C8_Witness ==
    /\ SignFailed /\ pc = "threw" /\ Truthy(quote.data)
    /\ error = "Failed to obtain signature or transaction data"

\* C9: a throw inside main() is not caught by bulkTest: it goes to the
\* rejection handler and ends the run; no iteration is started after it, the
\* throwing iteration is in none of the three counters, and neither the
\* counters are logged nor the balances queried.
C9_ThrowAbortsRun ==
    MainThrew =>
        /\ pc \in {"threw", "done"}
        /\ pc = "done" => ending = "rejected"
        /\ returned = mainCalls - 1
        /\ success + failed + notSent = mainCalls - 1
        /\ total = mainCalls - 1 /\ i = mainCalls - 1
        /\ ~countersLogged /\ ~balancesLogged
        /\ calls["usdcBalance"] = 0 /\ calls["wethBalance"] = 0

\* C9 witness: the second iteration threw for want of a signature, after the
\* first was tallied, and the rejection handler ran
C9_Witness ==
    /\ pc = "done" /\ ending = "rejected"
    /\ error = "Failed to obtain signature or transaction data"
    /\ mainCalls = 2 /\ success + notSent = 1

AnyMissing(e) == Missing(e.PRIVATE_KEY) \/ Missing(e.ZERO_EX_API_KEY) \/ Missing(e.RPC_URL)

\* C10: with PRIVATE_KEY, ZERO_EX_API_KEY or RPC_URL missing, the module
\* throws at startup: no HTTP or RPC call is ever made and neither bulkTest()
\* nor main() is invoked.
C10_MissingConfigFaults ==
    AnyMissing(env) =>
        /\ pc \in {"validate", "fault"}
        /\ pc = "fault" => fault # "none"
        /\ ~netUsed /\ outstanding = {} /\ calls = NoCalls
        /\ ~bulkInvoked /\ mainCalls = 0

\* C10 witness: only RPC_URL is missing and the startup fault was raised
C10_Witness ==
    /\ pc = "fault" /\ fault = "missing RPC_URL."
    /\ env.PRIVATE_KEY = "set" /\ env.ZERO_EX_API_KEY = "set" /\ env.RPC_URL = "unset"
\* C11: a failed approval (simulation, submission or receipt wait) is caught
\* and logged: it is not thrown out of main(), no approval call is issued a
\* second time in the iteration, and the iteration goes on to the firm-quote
\* request, from where it can sign and broadcast as after a successful
\* approval.
C11_ApprovalFailureContinues ==
    ApprovalError =>
        /\ error \notin ApprovalCalls
        /\ \A c \in ApprovalCalls : calls[c] <= 1
        /\ pc \notin ApprovalCalls \cup {"allowance"}
        /\ pc \in {"quoteParams", "fetchQuote"} \/ Issued("fetchQuote")

\* C11 witness: the approval's submission failed, and the iteration still
\* broadcast a swap and returned 1
C11_Witness ==
    /\ ApprovalError /\ price.kind = "allowanceSet"
    /\ calls["writeApprove"] = 1 /\ approved = <<>>
    /\ pc = "returned" /\ res = 1 /\ sent.defined
\* the loop of bulkTest was left without a throw
LoopExited == pc = "summary" \/ countersLogged

\* C12: main() is invoked at most 50 times; the loop is left either after an
\* iteration that returned 0 or after the 50th iteration, so with outcomes 1
\* and 2 only it is invoked exactly 50 times; a run that ends without leaving
\* the loop ended by a throw of main().
C12_AtMostFiftyIterations ==
    /\ mainCalls <= LoopLimit
    /\ LoopExited =>
         \/ failed = 1 /\ res = 0
         \/ /\ failed = 0
            /\ mainCalls = LoopLimit /\ returned = LoopLimit
            /\ success + notSent = LoopLimit
    /\ (pc = "done" /\ ~LoopExited) => MainThrew

\* C12 witness: a run of 50 iterations, some returning 1 and some 2, completed
C12_Witness ==
    /\ pc = "done" /\ ending = "completed"
    /\ mainCalls = LoopLimit /\ failed = 0
    /\ success >= 1 /\ notSent >= 1
\* the counters account for every returned iteration; the one that has just
\* returned is tallied by the next step of bulkTest
CountersAccount ==
    /\ success + failed + notSent = returned - (IF pc = "returned" THEN 1 ELSE 0)
    /\ success + failed + notSent <= LoopLimit
    /\ failed \in {0, 1}

\* C13: every returned iteration adds one to exactly one counter (success on
\* 1, failed on 0, notSent otherwise), so the three counters sum to the number
\* of returned invocations and to at most 50; no counter ever decreases and
\* failed is 0 or 1.
C13_CountersTally ==
    [][/\ CountersAccount
       /\ CountersAccount'
       /\ success' >= success /\ failed' >= failed /\ notSent' >= notSent
       /\ pc = "returned" =>
            /\ success' = success + (IF res = 1 THEN 1 ELSE 0)
            /\ failed' = failed + (IF res = 0 THEN 1 ELSE 0)
            /\ notSent' = notSent + (IF res \notin {0, 1} THEN 1 ELSE 0)
       /\ pc # "returned" => UNCHANGED <<success, failed, notSent>>]_vars

\* C13 witness: all three counters are non-zero when the counters are logged
C13_Witness ==
    /\ countersLogged /\ success >= 1 /\ failed = 1 /\ notSent >= 1
    /\ success + failed + notSent = returned
\* swaps whose receipt was obtained: they were tallied, or are about to be
ConfirmedSwaps ==
    success + failed + (IF pc = "returned" /\ res \in {0, 1} THEN 1 ELSE 0)

\* C14: at most one awaited call is outstanding, and it is the call of the
\* statement the script is at; a swap is unconfirmed only while its receipt
\* is awaited (or after that wait threw and ended the run), so a nonce is
\* looked up, and a swap signed and sent, only with no unconfirmed swap of
\* an earlier iteration, and never more than one is unconfirmed.
C14_StrictlySerial ==
    /\ Cardinality(outstanding) <= 1
    /\ outstanding \subseteq {pc}
    /\ unconfirmed \in {0, 1}
    /\ unconfirmed = 1 => (pc = "swapReceipt" \/ error = "swapReceipt")
    /\ pc \in {"getTransactionCount", "signTransaction", "sendRawTransaction"} =>
         unconfirmed = 0
    /\ broadcasts - unconfirmed = ConfirmedSwaps

\* C14 witness: the nonce lookup of the third iteration is outstanding after
\* two swaps were broadcast and confirmed
C14_Witness ==
    /\ outstanding = {"getTransactionCount"}
    /\ mainCalls = 3 /\ broadcasts = 2 /\ unconfirmed = 0
\* statements of bulkTest after the counter logs
AfterSummary == {"usdcBalance", "wethBalance", "balanceLog", "resolved"}
\* statements inside the loop of bulkTest
InLoop == MainAwaits \cup {"for", "returned", "allowance", "quoteParams", "permit", "append", "send"}

\* C15: after the loop is left, by exhaustion or by the break, the counters
\* are logged before any balance is queried: a balance query (sell token
\* first, then buy token, once each) is made only with the counters logged
\* and the loop left, and the balances are logged only after both queries.
C15_CountersThenBalances ==
    /\ (\/ pc \in AfterSummary \/ balancesLogged
        \/ calls["usdcBalance"] > 0 \/ calls["wethBalance"] > 0) => countersLogged
    /\ countersLogged =>
         /\ pc \notin InLoop
         /\ failed = 1 \/ mainCalls = LoopLimit
    /\ calls["usdcBalance"] <= 1 /\ calls["wethBalance"] <= 1
    /\ calls["wethBalance"] = 1 =>
         /\ calls["usdcBalance"] = 1
         /\ Position("usdcBalance") < Position("wethBalance")
    /\ balancesLogged => (calls["usdcBalance"] = 1 /\ calls["wethBalance"] = 1)

\* C15 witness: the loop was left by the break, and counters and balances
\* were logged
C15_Witness ==
    /\ balancesLogged /\ countersLogged /\ failed = 1 /\ mainCalls < LoopLimit
\* keys of a parameter list, in order
Keys(params) == [k \in 1..Len(params) |-> params[k][1]]

\* C16: the firm-quote request carries the parameters of the iteration's price
\* request: chain id, sell token, buy token, sell amount and taker, no others,
\* each with the value the price request had, whether or not an approval was
\* attempted in between; the price parameters are not changed after the price
\* request.
C16_QuoteParamsEqualPriceParams ==
    /\ Issued("fetchPrice") =>
         /\ Keys(priceRequest) = <<"chainId", "sellToken", "buyToken", "sellAmount", "taker">>
         /\ priceRequest = PriceParams(sellAmount)
         /\ priceParams = priceRequest
    /\ Issued("fetchQuote") =>
         /\ Issued("fetchPrice")
         /\ quoteRequest = priceRequest
         /\ quoteParams = quoteRequest

\* C16 witness: the firm-quote request went out after an approval was
\* submitted
C16_Witness ==
    /\ Issued("fetchQuote") /\ Len(approved) = 1
    /\ Len(quoteRequest) = 5 /\ quoteRequest[4] = <<"sellAmount", "1000000">>
\* the current invocation of main() has not been tallied
Untallied == returned < mainCalls \/ pc = "returned"

\* C17: an iteration broadcasts at most one swap; it returns 1 or 0 only
\* after one broadcast whose receipt was obtained, and 2 only without a
\* broadcast; so every broadcast is in success + failed or belongs to the
\* iteration not yet tallied, and once the loop is left success + failed is
\* the number of swaps broadcast and notSent the number of returned
\* iterations that broadcast nothing.
C17_OneBroadcastPerTalliedSwap ==
    /\ calls["sendRawTransaction"] <= 1
    /\ sent.defined => calls["sendRawTransaction"] = 1
    /\ (pc = "returned" /\ res \in {0, 1}) =>
         /\ sent.defined /\ calls["swapReceipt"] = 1
         /\ receiptStatus \in {"success", "reverted"}
         /\ unconfirmed = 0
    /\ (pc = "returned" /\ res = 2) =>
         (~sent.defined /\ calls["sendRawTransaction"] = 0)
    /\ broadcasts = success + failed + (IF sent.defined /\ Untallied THEN 1 ELSE 0)
    /\ LoopExited =>
         /\ success + failed = broadcasts
         /\ notSent = returned - broadcasts

\* C17 witness: the loop was left with swaps that succeeded, one that
\* reverted and iterations that sent nothing
C17_Witness ==
    /\ pc = "summary" /\ success = 2 /\ failed = 1 /\ notSent = 1
    /\ broadcasts = 3 /\ returned = 4
====
